---- MODULE Spec2Model ----
(***************************************************************************)
(* Model of backend/agent.py: the SQLite-backed car registry               *)
(* (DatabaseDriver), the process-wide session object (AssistantFnc), the   *)
(* keyword router of handle_msg and the two agent tools.                   *)
(*                                                                         *)
(* A Python str is a sequence of one-character strings, so that lower(),   *)
(* split(), `in` and int() are computed rather than assumed.  A Python int *)
(* is written as its canonical decimal numeral, which keeps values beyond  *)
(* the 64-bit range of an SQLite INTEGER representable.                    *)
(***************************************************************************)
EXTENDS Integers, Sequences, FiniteSets, Bags, TLC

VARIABLES
    cars,         \* committed rows of table cars in the shared SQLite file
    txn,          \* the one INSERT that holds the write lock, not yet committed
    car_details,  \* per worker process: assistant_fnc._car_details
    started,      \* conversations whose entrypoint has registered handle_msg
    last,         \* the step just taken: operation, input and its outcome
    succeeded,    \* log of the DB.create_car calls that returned: who, what
    awaiting      \* per conversation: handle_msg calls suspended in the
                  \* await of session.send_message

vars == <<cars, txn, car_details, started, last, succeeded, awaiting>>

----------------------------------------------------------------------------
(* str primitives *)

UpperChars == <<"A","B","C","D","E","F","G","H","I","J","K","L","M",
                "N","O","P","Q","R","S","T","U","V","W","X","Y","Z">>

LowerChars == <<"a","b","c","d","e","f","g","h","i","j","k","l","m",
                "n","o","p","q","r","s","t","u","v","w","x","y","z">>

DigitChars == <<"0","1","2","3","4","5","6","7","8","9">>

Whitespace == {" ", "\t", "\n"}

\* str.lower() on one character
LowerChar(ch) ==
    IF \E i \in 1..Len(UpperChars) : UpperChars[i] = ch
    THEN LowerChars[CHOOSE i \in 1..Len(UpperChars) : UpperChars[i] = ch]
    ELSE ch

\* str.lower()
Lower(s) == [i \in 1..Len(s) |-> LowerChar(s[i])]

\* `sub in s` for str operands
Contains(s, sub) ==
    \E i \in 0..(Len(s) - Len(sub)) : SubSeq(s, i + 1, i + Len(sub)) = sub

\* str.split() with no argument: runs of whitespace separate the tokens and
\* no empty token is produced
RECURSIVE SplitFrom(_, _, _)
SplitFrom(s, i, cur) ==
    IF i > Len(s)
    THEN IF cur = <<>> THEN <<>> ELSE <<cur>>
    ELSE IF s[i] \in Whitespace
         THEN IF cur = <<>>
              THEN SplitFrom(s, i + 1, <<>>)
              ELSE <<cur>> \o SplitFrom(s, i + 1, <<>>)
         ELSE SplitFrom(s, i + 1, Append(cur, s[i]))

Split(s) == SplitFrom(s, 1, <<>>)

\* list.index(x): the first position of x (1-based here), 0 for ValueError
Index(parts, x) ==
    IF \E i \in 1..Len(parts) : parts[i] = x
    THEN CHOOSE i \in 1..Len(parts) :
             parts[i] = x /\ \A j \in 1..(i - 1) : parts[j] # x
    ELSE 0

----------------------------------------------------------------------------
(* int(str) and the 64-bit range of an SQLite INTEGER *)

IsDigit(ch) == \E i \in 1..Len(DigitChars) : DigitChars[i] = ch

DigitVal(ch) == (CHOOSE i \in 1..Len(DigitChars) : DigitChars[i] = ch) - 1

\* the digits of a literal with its underscores removed
RECURSIVE DropUnderscores(_)
DropUnderscores(s) ==
    IF s = <<>> THEN <<>>
    ELSE IF Head(s) = "_" THEN DropUnderscores(Tail(s))
         ELSE <<Head(s)>> \o DropUnderscores(Tail(s))

RECURSIVE DropLeadingZeros(_)
DropLeadingZeros(s) ==
    IF Len(s) > 1 /\ Head(s) = "0" THEN DropLeadingZeros(Tail(s)) ELSE s

\* an int literal body: digits, single underscores only between digits
DigitsWellFormed(s) ==
    /\ s # <<>>
    /\ \A i \in 1..Len(s) : IsDigit(s[i]) \/ s[i] = "_"
    /\ s[1] # "_"
    /\ s[Len(s)] # "_"
    /\ \A i \in 1..(Len(s) - 1) : ~(s[i] = "_" /\ s[i + 1] = "_")

SignOf(tok) == IF tok # <<>> /\ Head(tok) \in {"+", "-"} THEN Head(tok) ELSE ""

BodyOf(tok) == IF SignOf(tok) = "" THEN tok ELSE Tail(tok)

\* int(tok) raises ValueError unless this holds
IsIntLiteral(tok) == DigitsWellFormed(BodyOf(tok))

\* int(tok): the value, written as its canonical decimal numeral (no "+",
\* no underscores, no leading zeros, "-" only before a non-zero magnitude)
ParseInt(tok) ==
    LET d == DropLeadingZeros(DropUnderscores(BodyOf(tok)))
    IN  IF SignOf(tok) = "-" /\ d # <<"0">> THEN <<"-">> \o d ELSE d

IsNeg(n) == Head(n) = "-"

Magnitude(n) == IF IsNeg(n) THEN Tail(n) ELSE n

Int64MaxDigits == <<"9","2","2","3","3","7","2","0","3","6",
                    "8","5","4","7","7","5","8","0","7">>

\* a <= b for digit strings of equal length
RECURSIVE DigitsLeq(_, _)
DigitsLeq(a, b) ==
    IF a = <<>> THEN TRUE
    ELSE IF DigitVal(Head(a)) < DigitVal(Head(b)) THEN TRUE
    ELSE IF DigitVal(Head(a)) > DigitVal(Head(b)) THEN FALSE
    ELSE DigitsLeq(Tail(a), Tail(b))

\* sqlite3 binds a Python int only if it fits a signed 64-bit integer,
\* otherwise the binding raises OverflowError
FitsInt64(n) ==
    \/ Len(Magnitude(n)) < Len(Int64MaxDigits)
    \/ /\ Len(Magnitude(n)) = Len(Int64MaxDigits)
       /\ \/ DigitsLeq(Magnitude(n), Int64MaxDigits)
          \/ IsNeg(n) /\ Magnitude(n) = [Int64MaxDigits EXCEPT ![19] = "8"]

----------------------------------------------------------------------------
(* Car and DatabaseDriver *)

Car(vin, make, model, year) ==
    [vin |-> vin, make |-> make, model |-> model, year |-> year]

\* Optional[Car]: None is the empty set, a Car c is {c}
NoCar == {}

\* a table whose vin column carries no uniqueness constraint
ViolatesPrimaryKey_Off(rows, vin) == FALSE

\* vin TEXT PRIMARY KEY: does the INSERT of a row with this vin violate the
\* uniqueness constraint (sqlite3.IntegrityError)?  TEXT compares bytewise.
ViolatesPrimaryKey(rows, vin) == \E r \in rows : r.vin = vin

\* an INSERT that first empties the table
InsertRow_Truncate(rows, row) == {row}

\* the table after INSERT INTO cars ... ; commit
InsertRow(rows, row) == rows \cup {row}

\* a SELECT that compares VINs without regard to letter case
get_car_by_vin_nocase(rows, vin) ==
    IF \E r \in rows : Lower(r.vin) = Lower(vin)
    THEN {CHOOSE r \in rows : Lower(r.vin) = Lower(vin)}
    ELSE NoCar

\* DatabaseDriver.get_car_by_vin: SELECT * FROM cars WHERE vin = ?, fetchone
get_car_by_vin(rows, vin) ==
    IF \E r \in rows : r.vin = vin
    THEN {CHOOSE r \in rows : r.vin = vin}
    ELSE NoCar

----------------------------------------------------------------------------
(* AssistantFnc *)

\* a dict value: a str, or an int held as its decimal numeral
PyStr(s) == [type |-> "str", repr |-> s]

PyInt(n) == [type |-> "int", repr |-> n]

\* bool(value)
Truthy(cell) ==
    IF cell.type = "str" THEN cell.repr # <<>> ELSE cell.repr # <<"0">>

\* the members of CarDetails in definition order, which is also the insertion
\* order of every dict assigned to _car_details
CarDetails == <<"vin", "make", "model", "year">>

\* AssistantFnc.__init__
EmptyDetails ==
    [vin |-> PyStr(<<>>), make |-> PyStr(<<>>),
     model |-> PyStr(<<>>), year |-> PyStr(<<>>)]

\* the dict built from a Car in lookup_car and create_car
DetailsOf(car) ==
    [vin |-> PyStr(car.vin), make |-> PyStr(car.make),
     model |-> PyStr(car.model), year |-> PyInt(car.year)]

\* get_car_str: one "key: value" line per dict item; a line is <<key, text>>
get_car_str(details) ==
    [i \in 1..Len(CarDetails) |-> <<CarDetails[i], details[CarDetails[i]].repr>>]

\* a has_car that is true when any cell of the dict is truthy
has_car_AnyField(details) ==
    \E i \in 1..Len(CarDetails) : Truthy(details[CarDetails[i]])

has_car(details) == Truthy(details.vin)

\* a response string: its fixed text, then the lines of get_car_str if any
Response(text, lines) == [text |-> text, lines |-> lines]

NoResponse == Response("", <<>>)

\* AssistantFnc.get_car_details
get_car_details(details) ==
    IF ~Truthy(details.vin)
    THEN Response("No car profile set yet.", <<>>)
    ELSE Response("Current car:", get_car_str(details))

\* a lookup_car that overwrites only the VIN cell of a Resolved session
lookup_car_KeepFields(details, rows, vin) ==
    LET result == get_car_by_vin(rows, vin)
    IN  IF result = NoCar
        THEN [details |-> details, response |-> Response("Car not found", <<>>)]
        ELSE LET car == CHOOSE c \in result : TRUE
                 d == IF has_car(details)
                      THEN [details EXCEPT !.vin = PyStr(car.vin)]
                      ELSE DetailsOf(car)
             IN  [details |-> d,
                  response |-> Response("The car details are:",
                                        get_car_str(DetailsOf(car)))]

\* a lookup_car that forgets the current car when the VIN is not found
lookup_car_ClearOnMiss(details, rows, vin) ==
    LET result == get_car_by_vin(rows, vin)
    IN  IF result = NoCar
        THEN [details |-> EmptyDetails,
              response |-> Response("Car not found", <<>>)]
        ELSE LET car == CHOOSE c \in result : TRUE
                 d == DetailsOf(car)
             IN  [details |-> d,
                  response |-> Response("The car details are:", get_car_str(d))]

\* a lookup_car that records the VIN asked for even when no record has it
lookup_car_SetVinOnMiss(details, rows, vin) ==
    LET result == get_car_by_vin(rows, vin)
    IN  IF result = NoCar
        THEN [details |-> [details EXCEPT !.vin = PyStr(vin)],
              response |-> Response("Car not found", <<>>)]
        ELSE LET car == CHOOSE c \in result : TRUE
                 d == DetailsOf(car)
             IN  [details |-> d,
                  response |-> Response("The car details are:", get_car_str(d))]

\* AssistantFnc.lookup_car: the new dict and the returned string
lookup_car(details, rows, vin) ==
    LET result == get_car_by_vin(rows, vin)
    IN  IF result = NoCar
        THEN [details |-> details, response |-> Response("Car not found", <<>>)]
        ELSE LET car == CHOOSE c \in result : TRUE
                 d == DetailsOf(car)
             IN  [details |-> d,
                  response |-> Response("The car details are:", get_car_str(d))]

----------------------------------------------------------------------------
(* handle_msg: the keyword router *)

S_lookup == <<"l","o","o","k","u","p">>

S_vin == <<"v","i","n">>

S_create_profile == <<"c","r","e","a","t","e"," ","p","r","o","f","i","l","e">>

EmptyCar == Car(<<>>, <<>>, <<>>, <<>>)

Plan(branch, vin, car) == [branch |-> branch, vin |-> vin, car |-> car]

\* a router that takes the create fields from the lowercased utterance
Route_LowerFields(msg) ==
    LET msg_lower == Lower(msg)
    IN  IF Contains(msg_lower, S_lookup) /\ Contains(msg_lower, S_vin)
        THEN LET parts == Split(msg_lower)
                 vin_index == Index(parts, S_vin) + 1
             IN  IF Index(parts, S_vin) = 0
                 THEN Plan("lookup_retry", <<>>, EmptyCar)
                 ELSE IF vin_index > Len(parts)
                 THEN Plan("lookup_retry", <<>>, EmptyCar)
                 ELSE Plan("lookup", parts[vin_index], EmptyCar)
        ELSE IF Contains(msg_lower, S_create_profile)
        THEN LET parts == Split(msg_lower)
             IN  IF Len(parts) < 6
                 THEN Plan("create_retry", <<>>, EmptyCar)
                 ELSE IF ~IsIntLiteral(parts[6])
                 THEN Plan("create_retry", <<>>, EmptyCar)
                 ELSE Plan("create", <<>>,
                           Car(parts[3], parts[4], parts[5], ParseInt(parts[6])))
        ELSE Plan("other", <<>>, EmptyCar)

\* a router that creates with year 0 when the 6th token is no integer
Route_DefaultYear(msg) ==
    LET msg_lower == Lower(msg)
    IN  IF Contains(msg_lower, S_lookup) /\ Contains(msg_lower, S_vin)
        THEN LET parts == Split(msg_lower)
                 vin_index == Index(parts, S_vin) + 1
             IN  IF Index(parts, S_vin) = 0
                 THEN Plan("lookup_retry", <<>>, EmptyCar)
                 ELSE IF vin_index > Len(parts)
                 THEN Plan("lookup_retry", <<>>, EmptyCar)
                 ELSE Plan("lookup", parts[vin_index], EmptyCar)
        ELSE IF Contains(msg_lower, S_create_profile)
        THEN LET parts == Split(msg)
             IN  IF Len(parts) < 6
                 THEN Plan("create_retry", <<>>, EmptyCar)
                 ELSE Plan("create", <<>>,
                           Car(parts[3], parts[4], parts[5],
                               IF IsIntLiteral(parts[6])
                               THEN ParseInt(parts[6]) ELSE <<"0">>))
        ELSE Plan("other", <<>>, EmptyCar)

\* a router that takes the last token as the VIN when no token follows "vin"
Route_LastToken(msg) ==
    LET msg_lower == Lower(msg)
    IN  IF Contains(msg_lower, S_lookup) /\ Contains(msg_lower, S_vin)
        THEN LET parts == Split(msg_lower)
                 vin_index == Index(parts, S_vin) + 1
             IN  IF Index(parts, S_vin) = 0
                 THEN Plan("lookup_retry", <<>>, EmptyCar)
                 ELSE IF vin_index > Len(parts)
                 THEN Plan("lookup", parts[Len(parts)], EmptyCar)
                 ELSE Plan("lookup", parts[vin_index], EmptyCar)
        ELSE IF Contains(msg_lower, S_create_profile)
        THEN LET parts == Split(msg)
             IN  IF Len(parts) < 6
                 THEN Plan("create_retry", <<>>, EmptyCar)
                 ELSE IF ~IsIntLiteral(parts[6])
                 THEN Plan("create_retry", <<>>, EmptyCar)
                 ELSE Plan("create", <<>>,
                           Car(parts[3], parts[4], parts[5], ParseInt(parts[6])))
        ELSE Plan("other", <<>>, EmptyCar)

\* a router that tests the create rule before the lookup rule
Route_CreateFirst(msg) ==
    LET msg_lower == Lower(msg)
    IN  IF Contains(msg_lower, S_create_profile)
        THEN LET parts == Split(msg)
             IN  IF Len(parts) < 6
                 THEN Plan("create_retry", <<>>, EmptyCar)
                 ELSE IF ~IsIntLiteral(parts[6])
                 THEN Plan("create_retry", <<>>, EmptyCar)
                 ELSE Plan("create", <<>>,
                           Car(parts[3], parts[4], parts[5], ParseInt(parts[6])))
        ELSE IF Contains(msg_lower, S_lookup) /\ Contains(msg_lower, S_vin)
        THEN LET parts == Split(msg_lower)
                 vin_index == Index(parts, S_vin) + 1
             IN  IF Index(parts, S_vin) = 0
                 THEN Plan("lookup_retry", <<>>, EmptyCar)
                 ELSE IF vin_index > Len(parts)
                 THEN Plan("lookup_retry", <<>>, EmptyCar)
                 ELSE Plan("lookup", parts[vin_index], EmptyCar)
        ELSE Plan("other", <<>>, EmptyCar)

\* the branch handle_msg takes for msg and the arguments it extracts, up to
\* the call into assistant_fnc
Route(msg) ==
    LET msg_lower == Lower(msg)
    IN  IF Contains(msg_lower, S_lookup) /\ Contains(msg_lower, S_vin)
        THEN LET parts == Split(msg_lower)
                 vin_index == Index(parts, S_vin) + 1
             IN  IF Index(parts, S_vin) = 0          \* ValueError
                 THEN Plan("lookup_retry", <<>>, EmptyCar)
                 ELSE IF vin_index > Len(parts)      \* IndexError
                 THEN Plan("lookup_retry", <<>>, EmptyCar)
                 ELSE Plan("lookup", parts[vin_index], EmptyCar)
        ELSE IF Contains(msg_lower, S_create_profile)
        THEN LET parts == Split(msg)
             IN  IF Len(parts) < 6                   \* IndexError
                 THEN Plan("create_retry", <<>>, EmptyCar)
                 ELSE IF ~IsIntLiteral(parts[6])     \* ValueError
                 THEN Plan("create_retry", <<>>, EmptyCar)
                 ELSE Plan("create", <<>>,
                           Car(parts[3], parts[4], parts[5], ParseInt(parts[6])))
        ELSE Plan("other", <<>>, EmptyCar)

----------------------------------------------------------------------------
(* Inputs: worker processes, conversations, utterances and tool arguments *)

Procs == {"p1", "p2"}

Convs == {"c1", "c2", "c3"}

\* c1 and c2 are jobs of one worker process, c3 is a job of another
ProcOf(c) == IF c = "c3" THEN "p2" ELSE "p1"

RECURSIVE Join(_)
Join(tokens) ==
    IF Len(tokens) = 0 THEN <<>>
    ELSE IF Len(tokens) = 1 THEN Head(tokens)
    ELSE Head(tokens) \o <<" ">> \o Join(Tail(tokens))

W_lookup == <<"l","o","o","k","u","p">>
W_vin == <<"v","i","n">>
W_create == <<"c","r","e","a","t","e">>
W_profile == <<"p","r","o","f","i","l","e">>
W_please == <<"p","l","e","a","s","e">>
W_hello == <<"h","e","l","l","o">>
W_Lookup == <<"L","o","o","k","u","p">>
W_VIN == <<"V","I","N">>
W_Kevin == <<"K","e","v","i","n">>
W_V1 == <<"V","1">>
W_v1 == <<"v","1">>
W_Honda == <<"H","o","n","d","a">>
W_Kia == <<"K","i","a">>
W_Accord == <<"A","c","c","o","r","d">>
W_2003 == <<"2","0","0","3">>
W_plus1_999 == <<"+","1","_","9","9","9">>
W_x == <<"x">>
W_2pow63 == <<"9","2","2","3","3","7","2","0","3","6",
              "8","5","4","7","7","5","8","0","8">>

LookupUtterances ==
    { Join(<<W_lookup, W_vin, W_V1>>),
      Join(<<W_lookup, W_vin, W_v1>>),
      Join(<<W_Lookup, W_VIN, W_V1>>),
      Join(<<W_lookup, W_vin>>),
      Join(<<W_lookup, W_Kevin>>) }

CreateUtterances ==
    { Join(<<W_create, W_profile, W_V1, W_Honda, W_Accord, W_2003>>),
      Join(<<W_create, W_profile, W_V1, W_Kia, W_Accord, W_2003>>),
      Join(<<W_create, W_profile, W_v1, W_Kia, W_Accord, W_plus1_999>>),
      Join(<<W_create, W_profile, W_V1, W_Honda, W_Accord, W_x>>),
      Join(<<W_create, W_profile, W_V1>>),
      Join(<<W_create, W_profile, W_V1, W_Honda, W_Accord, W_2pow63>>),
      Join(<<W_create, W_profile, W_vin, W_lookup, W_Kia, W_2003>>),
      Join(<<W_create, W_profile, W_V1, W_Kevin, W_Lookup, W_2003>>),
      Join(<<W_create, W_profile, W_vin, W_lookup>>),
      Join(<<W_please, W_create, W_profile, W_V1, W_Kia, W_Accord, W_2003>>) }

OtherUtterances == { Join(<<W_hello>>) }

Utterances == LookupUtterances \cup CreateUtterances \cup OtherUtterances

\* arguments the language model may pass to the lookup_car tool
ToolVins == { W_V1, <<>> }

\* arguments the language model may pass to the create_car tool
ToolCars ==
    { Car(<<>>, W_Kia, W_Accord, W_2003),
      Car(W_V1, W_Kia, W_Accord, W_2003) }

\* Route, tabulated over the utterances of the model
RouteOf == [m \in Utterances |-> Route(m)]

----------------------------------------------------------------------------
(* State *)

NoTxn == [holder |-> "none", conv |-> "none", op |-> "none",
          msg |-> <<>>, car |-> EmptyCar]

Event(op, conv, msg, car, status, exc, response) ==
    [op |-> op, conv |-> conv, msg |-> msg, car |-> car,
     status |-> status, exc |-> exc, response |-> response]

Init ==
    /\ cars = {}
    /\ txn = NoTxn
    /\ car_details = [p \in Procs |-> EmptyDetails]
    /\ started = {}
    /\ last = Event("init", "none", <<>>, EmptyCar, "returned", "", NoResponse)
    /\ succeeded = EmptyBag
    /\ awaiting = [c \in Convs |-> 0]

\* process p is not inside a synchronous DB.create_car call
Idle(p) == txn.holder # p

\* entrypoint: the job starts and registers handle_msg on its session
Entrypoint(c) ==
    /\ c \notin started
    /\ Idle(ProcOf(c))
    /\ started' = started \cup {c}
    /\ last' = Event("entrypoint", c, <<>>, EmptyCar, "returned", "", NoResponse)
    /\ UNCHANGED <<cars, txn, car_details, succeeded>>

\* a create_car whose statement is INSERT OR REPLACE: a stored VIN is no error
BeginCreate_Upsert(c, op, msg, car) ==
    IF ~FitsInt64(car.year)
    THEN /\ last' = Event(op, c, msg, car, "raised", "OverflowError", NoResponse)
         /\ UNCHANGED <<cars, txn, car_details, started, succeeded>>
    ELSE /\ txn.holder = "none"
         /\ txn' = [holder |-> ProcOf(c), conv |-> c, op |-> op,
                    msg |-> msg, car |-> car]
         /\ last' = Event(op, c, msg, car, "running", "", NoResponse)
         /\ UNCHANGED <<cars, car_details, started, succeeded>>

\* DatabaseDriver.create_car up to the execute of the INSERT, reached from
\* AssistantFnc.create_car.  Binding an out-of-range year raises
\* OverflowError; the INSERT waits for the write lock and then either raises
\* IntegrityError or leaves the row pending until the commit.
BeginCreate(c, op, msg, car) ==
    IF ~FitsInt64(car.year)
    THEN /\ last' = Event(op, c, msg, car, "raised", "OverflowError", NoResponse)
         /\ UNCHANGED <<cars, txn, car_details, started, succeeded>>
    ELSE /\ txn.holder = "none"
         /\ IF ViolatesPrimaryKey(cars, car.vin)
            THEN /\ last' = Event(op, c, msg, car, "raised", "IntegrityError",
                                  NoResponse)
                 /\ UNCHANGED <<cars, txn, car_details, started, succeeded>>
            ELSE /\ txn' = [holder |-> ProcOf(c), conv |-> c, op |-> op,
                            msg |-> msg, car |-> car]
                 /\ last' = Event(op, c, msg, car, "running", "", NoResponse)
                 /\ UNCHANGED <<cars, car_details, started, succeeded>>

\* AssistantFnc.create_car after DB.create_car has returned result
create_car(details, result) ==
    IF result = NoCar
    THEN [details |-> details,
          response |-> Response("Failed to create car", <<>>)]
    ELSE [details |-> DetailsOf(CHOOSE c \in result : TRUE),
          response |-> Response("Car profile created!", <<>>)]

\* conn.commit() and the return of DatabaseDriver.create_car, then the rest
\* of AssistantFnc.create_car and of its caller
CommitCreate(p) ==
    /\ txn.holder = p
    /\ LET result == {txn.car}
           r == create_car(car_details[p], result)
       IN  /\ cars' = InsertRow(cars, txn.car)
           /\ succeeded' = succeeded (+) SetToBag({[car |-> txn.car, conv |-> txn.conv, op |-> txn.op]})
           /\ car_details' = [car_details EXCEPT ![p] = r.details]
           /\ last' = Event(txn.op, txn.conv, txn.msg, txn.car,
                            "returned", "", r.response)
    /\ txn' = NoTxn
    /\ UNCHANGED started

\* handle_msg(msg) in conversation c, up to the send of the response
HandleMsg(c, msg) ==
    /\ c \in started
    /\ Idle(ProcOf(c))
    /\ LET p == ProcOf(c)
           plan == RouteOf[msg]
       IN  CASE plan.branch = "lookup" ->
                 LET r == lookup_car(car_details[p], cars, plan.vin)
                 IN  /\ car_details' = [car_details EXCEPT ![p] = r.details]
                     /\ last' = Event("msg", c, msg, EmptyCar, "returned", "",
                                      r.response)
                     /\ UNCHANGED <<cars, txn, started, succeeded>>
             [] plan.branch = "lookup_retry" ->
                 /\ last' = Event("msg", c, msg, EmptyCar, "returned", "",
                        Response("Please provide a VIN after the word 'vin' to look up.", <<>>))
                 /\ UNCHANGED <<cars, txn, car_details, started, succeeded>>
             [] plan.branch = "create" ->
                 BeginCreate(c, "msg", msg, plan.car)
             [] plan.branch = "create_retry" ->
                 /\ last' = Event("msg", c, msg, EmptyCar, "returned", "",
                        Response("To create a profile, please say: create profile VIN MAKE MODEL YEAR", <<>>))
                 /\ UNCHANGED <<cars, txn, car_details, started, succeeded>>
             [] plan.branch = "other" ->
                 /\ last' = Event("msg", c, msg, EmptyCar, "returned", "",
                        IF has_car(car_details[p])
                        THEN get_car_details(car_details[p])
                        ELSE Response("Please provide your car's VIN to look up your profile, or say 'create profile' to register a new vehicle.", <<>>))
                 /\ UNCHANGED <<cars, txn, car_details, started, succeeded>>

\* VehicleRegistrationAgent.lookup_car, called by the language model
ToolLookup(c, vin) ==
    /\ c \in started
    /\ Idle(ProcOf(c))
    /\ LET p == ProcOf(c)
           r == lookup_car(car_details[p], cars, vin)
       IN  /\ car_details' = [car_details EXCEPT ![p] = r.details]
           /\ last' = Event("tool_lookup", c, <<>>, Car(vin, <<>>, <<>>, <<>>),
                            "returned", "", r.response)
    /\ UNCHANGED <<cars, txn, started, succeeded>>

\* VehicleRegistrationAgent.create_car, called by the language model
ToolCreate(c, car) ==
    /\ c \in started
    /\ Idle(ProcOf(c))
    /\ BeginCreate(c, "tool_create", <<>>, car)

\* every handle_msg call runs to its end, send_message included, before the
\* next step
Next ==
    \/ \E c \in Convs : Entrypoint(c) /\ UNCHANGED awaiting
    \/ \E c \in Convs, msg \in Utterances :
          HandleMsg(c, msg) /\ UNCHANGED awaiting
    \/ \E p \in Procs : CommitCreate(p) /\ UNCHANGED awaiting
    \/ \E c \in Convs, vin \in ToolVins :
          ToolLookup(c, vin) /\ UNCHANGED awaiting
    \/ \E c \in Convs, car \in ToolCars :
          ToolCreate(c, car) /\ UNCHANGED awaiting

Spec == Init /\ [][Next]_vars

\* how many handle_msg calls of one conversation may be suspended at once
MaxAwaiting == 2

\* the utterances of the specification that tells the await apart
SendUtterances ==
    { Join(<<W_hello>>),
      Join(<<W_lookup, W_vin, W_V1>>),
      Join(<<W_create, W_profile, W_V1, W_Honda, W_Accord, W_2003>>) }

\* handle_msg up to the await of line 201: the coroutine has computed its
\* response and is suspended in send_message, unless it was left by an
\* exception or is still inside the INSERT
HandleMsgAwait(c, msg) ==
    /\ awaiting[c] < MaxAwaiting
    /\ HandleMsg(c, msg)
    /\ awaiting' = IF last'.status = "returned"
                   THEN [awaiting EXCEPT ![c] = @ + 1]
                   ELSE awaiting

\* the INSERT commits; a handle_msg call that made it goes on to the await
CommitCreateAwait(p) ==
    /\ CommitCreate(p)
    /\ awaiting' = IF last'.op = "msg"
                   THEN [awaiting EXCEPT ![last'.conv] = @ + 1]
                   ELSE awaiting

\* send_message of one suspended handle_msg call of c completes
Send(c) ==
    /\ awaiting[c] > 0
    /\ Idle(ProcOf(c))
    /\ awaiting' = [awaiting EXCEPT ![c] = @ - 1]
    /\ last' = Event("send", c, <<>>, EmptyCar, "returned", "", NoResponse)
    /\ UNCHANGED <<cars, txn, car_details, started, succeeded>>

\* the event loop of a worker runs other tasks while a handle_msg call is
\* suspended in its await: the next utterance, a tool call, another job
NextSend ==
    \/ \E c \in Convs : Entrypoint(c) /\ UNCHANGED awaiting
    \/ \E c \in Convs, msg \in SendUtterances : HandleMsgAwait(c, msg)
    \/ \E p \in Procs : CommitCreateAwait(p)
    \/ \E c \in Convs, vin \in ToolVins :
          ToolLookup(c, vin) /\ UNCHANGED awaiting
    \/ \E c \in Convs, car \in ToolCars :
          ToolCreate(c, car) /\ UNCHANGED awaiting
    \/ \E c \in Convs : Send(c)

SpecSend == Init /\ [][NextSend]_vars

----------------------------------------------------------------------------
(* Vocabulary of the properties *)

\* conversation c's session object
SessionOf(c) == car_details[ProcOf(c)]

\* a record with this VIN is stored
Stored(rows, vin) == \E r \in rows : r.vin = vin

\* an utterance holding the phrase "create profile", at least 6 tokens and
\* an integer 6th token
WellFormedCreate(msg) ==
    /\ Contains(Lower(msg), S_create_profile)
    /\ Len(Split(msg)) >= 6
    /\ IsIntLiteral(Split(msg)[6])

\* WellFormedCreate, tabulated over the utterances of the model
WellFormedCreateOf == [m \in Utterances |-> WellFormedCreate(m)]

\* the lowercased utterance holds "lookup" and holds "vin"
LookupRule(msg) ==
    Contains(Lower(msg), S_lookup) /\ Contains(Lower(msg), S_vin)

\* the record a create-profile utterance names: tokens 3 to 6, original case
NamedCar(msg) ==
    LET t == Split(msg) IN Car(t[3], t[4], t[5], ParseInt(t[6]))

\* the session dict that holds exactly the four fields of a record
Snapshot(r) ==
    [vin |-> [type |-> "str", repr |-> r.vin],
     make |-> [type |-> "str", repr |-> r.make],
     model |-> [type |-> "str", repr |-> r.model],
     year |-> [type |-> "int", repr |-> r.year]]

LookupRuleOf == [m \in Utterances |-> LookupRule(m)]

\* the named record of each well-formed create-profile utterance
NamedCarOf ==
    [m \in Utterances |-> IF WellFormedCreate(m) THEN NamedCar(m) ELSE EmptyCar]

\* the utterance is a Lookup: both words are present and a token follows
\* the first token "vin" of the lowercased utterance
IsLookup(msg) ==
    LET t == Split(Lower(msg))
    IN  /\ LookupRule(msg)
        /\ Index(t, S_vin) # 0
        /\ Index(t, S_vin) < Len(t)

\* the VIN of a Lookup
LookupVin(msg) ==
    LET t == Split(Lower(msg)) IN t[Index(t, S_vin) + 1]

IsLookupOf == [m \in Utterances |-> IsLookup(m)]

LookupVinOf ==
    [m \in Utterances |-> IF IsLookup(m) THEN LookupVin(m) ELSE <<>>]

\* an utterance holding the phrase "create profile" with fewer than 6 tokens
\* or a 6th token that is no integer
MalformedCreate(msg) ==
    /\ Contains(Lower(msg), S_create_profile)
    /\ \/ Len(Split(msg)) < 6
       \/ ~IsIntLiteral(Split(msg)[6])

MalformedCreateOf == [m \in Utterances |-> MalformedCreate(m)]

CreateRetryPrompt ==
    Response("To create a profile, please say: create profile VIN MAKE MODEL YEAR", <<>>)

\* the event is an utterance whose handling has ended
MsgHandled(e) == e.op = "msg" /\ e.status # "running"

\* the event is a call of DatabaseDriver.create_car that has ended
CreateEnded(e) ==
    /\ e.status # "running"
    /\ \/ e.op = "tool_create"
       \/ e.op = "msg" /\ RouteOf[e.msg].branch = "create"

\* the successful creates logged for a VIN
CreatesOf(vin) == {e \in BagToSet(succeeded) : e.car.vin = vin}

\* how many creates have succeeded for a VIN
CountOf(vin) ==
    LET S == CreatesOf(vin)
        RECURSIVE Sum(_)
        Sum(T) == IF T = {} THEN 0
                  ELSE LET e == CHOOSE x \in T : TRUE
                       IN  CopiesIn(e, succeeded) + Sum(T \ {e})
    IN  Sum(S)

\* the VINs that lookups are probed with
ProbeVins == {W_V1, W_v1, <<>>, W_vin, W_lookup, W_profile}

----------------------------------------------------------------------------
(* C1 *)

\* C1: handling a well-formed create-profile utterance whose VIN is already
\* stored ends with the response "Failed to create car" (nothing is raised
\* out of handle_msg) and leaves the store and every session as they were.
C1_DuplicateCreateRecovers ==
    [][ ( /\ MsgHandled(last')
          /\ WellFormedCreateOf[last'.msg]
          /\ Stored(cars, NamedCarOf[last'.msg].vin) )
        => ( /\ last'.status = "returned"
             /\ last'.response = Response("Failed to create car", <<>>)
             /\ cars' = cars
             /\ car_details' = car_details ) ]_vars

----------------------------------------------------------------------------
(* C2 *)

\* C2: once "create profile v make model year" has succeeded in a
\* conversation, every later "lookup vin v" of that conversation, with v as
\* it was typed, answers with the rendered record vin: v, make, model, year
\* and leaves the session resolved on that record.
C2_LookupFindsCreated ==
    [][ \A e \in BagToSet(succeeded) :
          ( /\ e.op = "msg"
            /\ MsgHandled(last')
            /\ last'.conv = e.conv
            /\ last'.msg = Join(<<W_lookup, W_vin, e.car.vin>>) )
          => ( /\ last'.status = "returned"
               /\ last'.response =
                      Response("The car details are:",
                               get_car_str(DetailsOf(e.car)))
               /\ car_details'[ProcOf(e.conv)] = DetailsOf(e.car) ) ]_vars

----------------------------------------------------------------------------
(* C3 *)

\* C3: DatabaseDriver.get_car_by_vin(v) is None while no create_car for v
\* has returned, and is exactly the Car (v, make, model, year) that was
\* passed to create_car from the moment that call has returned.
C3_StoreLookupReturnsCreated ==
    /\ \A v \in ProbeVins :
           CreatesOf(v) = {} => get_car_by_vin(cars, v) = NoCar
    /\ \A e \in BagToSet(succeeded) :
           get_car_by_vin(cars, e.car.vin) = {e.car}

\* a create of an upper-case VIN has returned and the tool then looked that
\* VIN up and was answered with the record
C3_Witness ==
    /\ last.op = "tool_lookup"
    /\ last.car.vin = W_V1
    /\ last.response.text = "The car details are:"
    /\ CreatesOf(W_V1) # {}
    /\ CreatesOf(W_v1) = {}

----------------------------------------------------------------------------
(* C4 *)

----------------------------------------------------------------------------
(* C5 *)

\* C5: whatever the interleaving of the conversations' creates, at most one
\* create_car per VIN has returned, and the rows of the table are exactly
\* the arguments of the creates that returned.
C5_AtMostOneCreateSucceeds ==
    /\ \A e \in BagToSet(succeeded) : CountOf(e.car.vin) = 1
    /\ cars = {e.car : e \in BagToSet(succeeded)}

\* a conversation of the other worker process was refused the VIN that a
\* conversation of the first process had created
C5_Witness ==
    /\ last.conv = "c3"
    /\ last.exc = "IntegrityError"
    /\ \E e \in CreatesOf(last.car.vin) : e.conv \in {"c1", "c2"}

----------------------------------------------------------------------------
(* C6 *)

\* C6: a conversation starts Unresolved, and handling an utterance or a tool
\* call of one conversation leaves the session of every other conversation
\* as it was.
C6_SessionPerConversation ==
    [][ /\ last'.op = "entrypoint" => ~has_car(car_details'[ProcOf(last'.conv)])
        /\ \A d \in Convs :
               d # last'.conv => car_details'[ProcOf(d)] = SessionOf(d) ]_vars

----------------------------------------------------------------------------
(* C7 *)

----------------------------------------------------------------------------
(* C8 *)

\* C8: handling a Lookup whose VIN is stored puts the four fields of the
\* stored record in the session, whatever it held, leaves it Resolved and
\* answers with the lines vin, make, model, year of that record.
C8_LookupFoundReplacesSession ==
    [][ ( /\ MsgHandled(last')
          /\ IsLookupOf[last'.msg]
          /\ Stored(cars, LookupVinOf[last'.msg]) )
        => \E r \in cars :
             /\ r.vin = LookupVinOf[last'.msg]
             /\ car_details'[ProcOf(last'.conv)] = Snapshot(r)
             /\ has_car(car_details'[ProcOf(last'.conv)])
             /\ cars' = cars
             /\ last'.status = "returned"
             /\ last'.response =
                    Response("The car details are:",
                             << <<"vin", r.vin>>, <<"make", r.make>>,
                                <<"model", r.model>>, <<"year", r.year>> >>) ]_vars

\* a conversation that had created the Honda V1 looked up v1 and its
\* session now holds the Kia v1
C8_Witness ==
    /\ last.op = "msg"
    /\ last.msg = Join(<<W_lookup, W_vin, W_v1>>)
    /\ last.response.text = "The car details are:"
    /\ SessionOf(last.conv).make.repr = W_Kia
    /\ \E e \in CreatesOf(W_V1) :
           e.conv = last.conv /\ e.op = "msg" /\ e.car.make = W_Honda
    /\ \E e \in CreatesOf(W_v1) : e.conv # last.conv

----------------------------------------------------------------------------
(* C9 *)

\* C9: handling a Lookup whose VIN is not stored answers "Car not found" and
\* leaves every session and the store as they were.
C9_LookupMissChangesNothing ==
    [][ ( /\ MsgHandled(last')
          /\ IsLookupOf[last'.msg]
          /\ ~Stored(cars, LookupVinOf[last'.msg]) )
        => ( /\ last'.status = "returned"
             /\ last'.response = Response("Car not found", <<>>)
             /\ car_details' = car_details
             /\ cars' = cars ) ]_vars

\* a Resolved conversation was just answered "Car not found"
C9_Witness ==
    /\ last.op = "msg"
    /\ IsLookupOf[last.msg]
    /\ last.response.text = "Car not found"
    /\ has_car(SessionOf(last.conv))
    /\ cars # {}

----------------------------------------------------------------------------
(* C10 *)

\* C10 as stated: handling any malformed create-profile utterance answers
\* with the create retry prompt and leaves store and sessions as they were.
C10_MalformedCreateRetries ==
    [][ ( /\ MsgHandled(last')
          /\ MalformedCreateOf[last'.msg] )
        => ( /\ last'.status = "returned"
             /\ last'.response = CreateRetryPrompt
             /\ cars' = cars
             /\ car_details' = car_details ) ]_vars

\* C10 amended: the same, for the malformed create-profile utterances that
\* do not also hold "lookup" and "vin"; one that holds both is handled by
\* the lookup branch, which never answers with the create retry prompt.
C10_MalformedCreateRetriesUnlessLookup ==
    [][ ( /\ MsgHandled(last')
          /\ MalformedCreateOf[last'.msg] )
        => IF LookupRuleOf[last'.msg]
           THEN /\ last'.status = "returned"
                /\ last'.response # CreateRetryPrompt
                /\ cars' = cars
           ELSE /\ last'.status = "returned"
                /\ last'.response = CreateRetryPrompt
                /\ cars' = cars
                /\ car_details' = car_details ]_vars

\* a Resolved conversation said seven tokens whose 6th is no integer and
\* was answered with the create retry prompt
C10_Witness ==
    /\ last.op = "msg"
    /\ last.msg = Join(<<W_please, W_create, W_profile, W_V1, W_Kia, W_Accord, W_2003>>)
    /\ last.response = CreateRetryPrompt
    /\ has_car(SessionOf(last.conv))

----------------------------------------------------------------------------
(* C11 *)

\* an utterance the lookup rule selects in which no token follows the first
\* token "vin" of the lowercased utterance, or in which no token is "vin"
MalformedLookup(msg) ==
    LET t == Split(Lower(msg))
    IN  /\ LookupRule(msg)
        /\ \/ Index(t, S_vin) = 0
           \/ Index(t, S_vin) = Len(t)

MalformedLookupOf == [m \in Utterances |-> MalformedLookup(m)]

LookupRetryPrompt ==
    Response("Please provide a VIN after the word 'vin' to look up.", <<>>)

\* C11: handling a lookup utterance in which nothing follows the token "vin"
\* (the first one, the one the VIN is read after), or in which no whole token
\* is "vin", returns the lookup retry prompt, raises nothing, and leaves every
\* session and the store as they were.
C11_MalformedLookupRetries ==
    [][ ( /\ last'.op = "msg"
          /\ MalformedLookupOf[last'.msg] )
        => ( /\ last'.status = "returned"
             /\ last'.exc = ""
             /\ last'.response = LookupRetryPrompt
             /\ car_details' = car_details
             /\ cars' = cars
             /\ txn' = txn ) ]_vars

\* a conversation with a current car and a stored record has said "lookup vin"
\* (nothing after "vin") or "lookup Kevin" (no token "vin") and got the prompt
C11_Witness ==
    /\ last.op = "msg"
    /\ last.msg \in {Join(<<W_lookup, W_vin>>), Join(<<W_lookup, W_Kevin>>)}
    /\ last.response = LookupRetryPrompt
    /\ has_car(SessionOf(last.conv))
    /\ cars # {}

----------------------------------------------------------------------------
(* C12 *)

\* the lowercased utterance holds neither "lookup" with "vin" nor
\* "create profile"
NeitherRule(msg) ==
    ~LookupRule(msg) /\ ~Contains(Lower(msg), S_create_profile)

NeitherRuleOf == [m \in Utterances |-> NeitherRule(m)]

\* the session has a current car: its VIN cell is not empty
Resolved(details) == details.vin.repr # <<>>

\* the four fields of the session's current car, one "key: value" line each
FourFields(details) ==
    << <<"vin", details.vin.repr>>, <<"make", details.make.repr>>,
       <<"model", details.model.repr>>, <<"year", details.year.repr>> >>

UnknownPrompt ==
    Response("Please provide your car's VIN to look up your profile, or say 'create profile' to register a new vehicle.", <<>>)

\* C12: handling an utterance that matches neither the lookup rule nor the
\* create rule changes no session and not the store, and its response is
\* decided by the session alone: "Current car:" with the four fields of the
\* current car if the session has a VIN, the prompt for a VIN or a
\* create-profile command if it has none.
C12_QueryOrUnknownReadsSession ==
    [][ ( /\ last'.op = "msg"
          /\ NeitherRuleOf[last'.msg] )
        => ( /\ last'.status = "returned"
             /\ car_details' = car_details
             /\ cars' = cars
             /\ txn' = txn
             /\ last'.response =
                  IF Resolved(car_details[ProcOf(last'.conv)])
                  THEN Response("Current car:",
                                FourFields(car_details[ProcOf(last'.conv)]))
                  ELSE UnknownPrompt ) ]_vars

\* "hello" was answered with the four fields of the conversation's current car
C12_Witness ==
    /\ last.op = "msg"
    /\ NeitherRuleOf[last.msg]
    /\ Resolved(SessionOf(last.conv))
    /\ last.response.text = "Current car:"
    /\ Len(last.response.lines) = 4

\* "hello" was answered with the prompt by a session whose VIN cell is empty
\* while its other cells hold the fields of a record stored under the VIN ""
C12_WitnessUnresolved ==
    /\ last.op = "msg"
    /\ NeitherRuleOf[last.msg]
    /\ ~Resolved(SessionOf(last.conv))
    /\ SessionOf(last.conv).make.repr # <<>>
    /\ last.response = UnknownPrompt

----------------------------------------------------------------------------
(* C13 *)

\* the utterance satisfies the lookup rule and the create rule
BothRules(msg) ==
    LookupRule(msg) /\ Contains(Lower(msg), S_create_profile)

BothRulesOf == [m \in Utterances |-> BothRules(m)]

\* the intent of an utterance: the lookup rule is tested first, the create
\* rule second, and whatever matches neither is a query or unknown
Intent(msg) ==
    IF LookupRule(msg)
    THEN IF IsLookup(msg) THEN "Lookup" ELSE "MalformedLookup"
    ELSE IF Contains(Lower(msg), S_create_profile)
    THEN IF WellFormedCreate(msg) THEN "Create" ELSE "MalformedCreate"
    ELSE "QueryOrUnknown"

IntentOf == [m \in Utterances |-> Intent(m)]

\* the fixed texts with which the handling of each intent answers; no text
\* belongs to two intents
TextsOf ==
    [Lookup |-> {"Car not found", "The car details are:"},
     MalformedLookup |-> {LookupRetryPrompt.text},
     Create |-> {"Car profile created!"},
     MalformedCreate |-> {CreateRetryPrompt.text},
     QueryOrUnknown |-> {"Current car:", UnknownPrompt.text}]

\* C13: every utterance is handled as exactly one intent, the one the fixed
\* order lookup, create, query-or-unknown gives it: its response is a text of
\* that intent and of no other (only a Create may end without a response),
\* and an utterance that satisfies both the lookup rule and the create rule
\* is handled as a lookup: it starts no create and adds no record.
C13_OneIntentLookupFirst ==
    [][ last'.op = "msg"
        => ( /\ last'.status = "returned"
                  => last'.response.text \in TextsOf[IntentOf[last'.msg]]
             /\ last'.status # "returned" => IntentOf[last'.msg] = "Create"
             /\ \A i \in DOMAIN TextsOf : \A j \in DOMAIN TextsOf :
                  i # j => TextsOf[i] \cap TextsOf[j] = {}
             /\ BothRulesOf[last'.msg]
                  => ( /\ IntentOf[last'.msg] \in {"Lookup", "MalformedLookup"}
                       /\ last'.status = "returned"
                       /\ cars' = cars
                       /\ txn' = txn ) ) ]_vars

\* "create profile vin lookup Kia 2003", which names a record no one has
\* stored, was handled as a lookup of the VIN "lookup"
C13_Witness ==
    /\ last.op = "msg"
    /\ BothRulesOf[last.msg]
    /\ WellFormedCreateOf[last.msg]
    /\ last.response.text = "Car not found"
    /\ ~Stored(cars, NamedCarOf[last.msg].vin)

----------------------------------------------------------------------------
(* C14 *)

\* C14: whatever the session and the store hold, the handling of an utterance
\* ends with one response string handed to send_message: no utterance ends
\* with an exception raised out of handle_msg and nothing sent.
C14_EveryUtteranceAnswered ==
    MsgHandled(last)
    => ( /\ last.status = "returned"
         /\ last.exc = ""
         /\ last.response # NoResponse )

----------------------------------------------------------------------------
(* C15 *)

\* C15: a call of DatabaseDriver.create_car with an empty VIN, from an
\* utterance or from the create_car tool, fails and leaves the store as it
\* was, and no record of the store has an empty vin.
C15_NoEmptyVinStored ==
    [][ /\ ( /\ CreateEnded(last')
             /\ last'.car.vin = <<>> )
           => ( last'.status = "raised" /\ cars' = cars )
        /\ \A r \in cars' : r.vin # <<>> ]_vars

----------------------------------------------------------------------------
(* C16 *)

\* the step ends a create with success
CreateSucceeds ==
    /\ CreateEnded(last')
    /\ last'.status = "returned"
    /\ last'.response.text = "Car profile created!"

\* C16: the store changes only in a step that ends a create with success, and
\* then by gaining exactly the created record; every other step (a lookup, a
\* query, an unknown or malformed utterance, a failed create) leaves it as it
\* was; no record is ever removed or altered; and get_car_by_vin of a VIN
\* returns the same result before and after every step that is no successful
\* create.
C16_StoreChangesOnlyByCreate ==
    [][ /\ cars' # cars
           => ( CreateSucceeds /\ cars' = cars \cup {last'.car} )
        /\ cars \subseteq cars'
        /\ ~CreateSucceeds
           => \A v \in ProbeVins :
                 get_car_by_vin(cars', v) = get_car_by_vin(cars, v) ]_vars

\* with two records stored, a failed create (its VIN is taken) is followed by
\* nothing that changed the store
C16_Witness ==
    /\ Cardinality(cars) >= 2
    /\ last.exc = "IntegrityError"
    /\ last.car \notin cars

----------------------------------------------------------------------------
(* C17 *)

\* the whitespace-split tokens of the lowercased utterance hold the whole
\* token "lookup" and the whole token "vin"
TokenLookupRule(msg) ==
    LET t == Split(Lower(msg))
    IN  Index(t, S_lookup) # 0 /\ Index(t, S_vin) # 0

TokenLookupRuleOf == [m \in Utterances |-> TokenLookupRule(m)]

\* the texts with which a lookup or a malformed lookup answers
LookupTexts ==
    {"Car not found", "The car details are:", LookupRetryPrompt.text}

\* C17: an utterance is handled as a lookup only if its lowercased tokens
\* hold the whole token "lookup" and the whole token "vin"; an utterance that
\* holds "create profile" with well-formed fields and lacks either whole
\* token (the strings may occur inside longer tokens) is handled as a create:
\* it calls DatabaseDriver.create_car, and with a VIN no one has stored and
\* a year SQLite can hold the named record is stored.
C17_LookupRuleIsTokenwise ==
    [][ MsgHandled(last')
        => ( /\ last'.response.text \in LookupTexts
                  => TokenLookupRuleOf[last'.msg]
             /\ ( /\ WellFormedCreateOf[last'.msg]
                  /\ ~TokenLookupRuleOf[last'.msg] )
                  => ( /\ CreateEnded(last')
                       /\ ( /\ ~Stored(cars, NamedCarOf[last'.msg].vin)
                            /\ FitsInt64(NamedCarOf[last'.msg].year) )
                            => ( /\ last'.response.text = "Car profile created!"
                                 /\ NamedCarOf[last'.msg] \in cars' ) ) ) ]_vars

----------------------------------------------------------------------------
(* C18 *)

\* the step begins the handling of an utterance or of a tool call: it is no
\* commit of an INSERT already begun
BeginsHandling ==
    /\ last'.op \in {"msg", "tool_lookup", "tool_create"}
    /\ ~(txn # NoTxn /\ txn' = NoTxn)

\* C18: within one conversation the classify, act and respond steps of an
\* utterance have all ended before any step of the next utterance or of a
\* tool call on the same session begins: no handling begins in a
\* conversation while a handle_msg call of it is still suspended in
\* send_message.
C18_OneUtteranceAtATime ==
    [][ BeginsHandling => awaiting[last'.conv] = 0 ]_vars

----------------------------------------------------------------------------
(* C19 *)

\* C19: in every reachable state, a session that has a current car (its VIN
\* cell is not empty) holds the four fields of a record of the store: the
\* store has a record with the session's VIN, and the make, model and year of
\* that record are those of the session.
C19_ResolvedSessionIsStored ==
    \A p \in Procs :
        Resolved(car_details[p])
        => \E r \in cars :
              /\ r.vin = car_details[p].vin.repr
              /\ car_details[p] = Snapshot(r)

\* the sessions of the two worker processes have current cars with different
\* VINs, and the step just taken is a lookup that found its record
C19_Witness ==
    /\ Resolved(car_details["p1"])
    /\ Resolved(car_details["p2"])
    /\ car_details["p1"].vin # car_details["p2"].vin
    /\ last.response.text = "The car details are:"
    /\ Cardinality(cars) >= 2

----------------------------------------------------------------------------
(* C20 *)

\* C20: no utterance handled by handle_msg returns a session that has a
\* current car to one that has none; and a step of handle_msg that overwrites
\* the VIN cell of a session writes the non-empty VIN of a record of the
\* store, the one its lookup found or its create has just stored, together
\* with the other fields of that record.
C20_ResolvedIsAbsorbing ==
    [][ last'.op = "msg"
        => \A p \in Procs :
             /\ Resolved(car_details[p]) => Resolved(car_details'[p])
             /\ car_details'[p].vin # car_details[p].vin
                => ( /\ Resolved(car_details'[p])
                     /\ p = ProcOf(last'.conv)
                     /\ last'.response.text
                          \in {"The car details are:", "Car profile created!"}
                     /\ \E r \in cars' : car_details'[p] = Snapshot(r)
                     /\ last'.response.text = "Car profile created!"
                          => DetailsOf(last'.car) = car_details'[p]
                             /\ last'.car \notin cars ) ]_vars

\* a session whose current car has another VIN has handled a create-profile
\* utterance whose INSERT failed, and kept its car
C20_Witness ==
    /\ last.op = "msg"
    /\ last.exc = "IntegrityError"
    /\ Resolved(SessionOf(last.conv))
    /\ SessionOf(last.conv).vin.repr # last.car.vin

====
